---- MODULE Spec2Model ----
(***************************************************************************)
(* Waukesha County Parcel Viewer (streamlit_app.py): the parcel filter,    *)
(* the proximity query, the bounds / truncation logic and the session      *)
(* state that main() keeps across Streamlit reruns.                        *)
(*                                                                         *)
(* Units.  Real numbers of the program are kept exact as integers:         *)
(*   latitude / longitude   micro-degrees (1e-6 deg)                       *)
(*   planar (UTM) lengths   millimetres                                    *)
(*   distance_miles         tenths of a mile                               *)
(*   GISACRES               hundredths of an acre                          *)
(*   ESTFMKVALU             dollars                                        *)
(*   display bounds         tenths of a micro-degree (1e-7 deg)            *)
(* Optional values (Python None) are sets: {} is None, {v} is the value v. *)
(* Text is a sequence of one-character strings.                            *)
(***************************************************************************)
EXTENDS Integers, Sequences, FiniteSets, TLC

VARIABLES
    loaded,         \* the frame load_parcels returned (None when it failed); never reassigned
    gdf,            \* the cached dataset object as it is now
    loadError,      \* st.error shown by load_parcels: "none" | "missing" | "corrupt"
    source,         \* optimized.parquet as it is on disk
    pc,             \* "start" | "stopped" | "idle" (session); "ready" | "returned" (direct calls)
    filter_options, \* the cached result of get_filter_options (None before it ran)
    filtered_gdf,   \* st.session_state.filtered_gdf
    map_bounds,     \* st.session_state.map_bounds
    map_file,       \* st.session_state.map_file
    map_truncated,  \* st.session_state.map_truncated
    temp_map,       \* the content of temp_map.html on disk (None while it does not exist)
    screen,         \* what the last script run rendered
    event,          \* the interaction that caused the last script run
    call,           \* the last direct filter_parcels call: its arguments and outcome
    filterInvoked   \* filter_parcels has been invoked at least once

vars == <<loaded, gdf, loadError, source, pc, filter_options, filtered_gdf, map_bounds,
          map_file, map_truncated, temp_map, screen, event, call, filterInvoked>>

---------------------------------------------------------------------------
(* Optional values *)

None == {}
Some(x) == {x}
Get(o) == CHOOSE x \in o : TRUE
\* Python truthiness of an optional number: None and 0 / 0.0 are falsy.
Truthy(o) == o # None /\ o # {0}

Max2(a, b) == IF a >= b THEN a ELSE b
Min2(a, b) == IF a <= b THEN a ELSE b
SetMin(S) == CHOOSE x \in S : \A y \in S : x <= y
SetMax(S) == CHOOSE x \in S : \A y \in S : x >= y

---------------------------------------------------------------------------
(* Exact squares of lengths up to 4e8 mm, as pairs <<hi, lo>> = hi*10^8+lo. *)
(* They stand for the real arithmetic of shapely's distance computations.  *)

WideSq(x) ==
    LET a == x \div 10000
        b == x % 10000
        m == 2 * a * b
        lo0 == (m % 10000) * 10000 + b * b
    IN  <<a * a + (m \div 10000) + (lo0 \div 100000000), lo0 % 100000000>>

WideAdd(p, q) ==
    <<p[1] + q[1] + ((p[2] + q[2]) \div 100000000), (p[2] + q[2]) % 100000000>>

WideLeq(p, q) == p[1] < q[1] \/ (p[1] = q[1] /\ p[2] <= q[2])

Abs(x) == IF x < 0 THEN -x ELSE x

---------------------------------------------------------------------------
(* Text *)

NullText == <<"NaN">>           \* a null (missing) text cell

Lower(c) ==
    CASE c = "A" -> "a"
      [] c = "B" -> "b"
      [] c = "C" -> "c"
      [] OTHER -> c

\* Series.str.contains(pat, case=False, na=False): pandas' default is
\* regex=True, so pat is a regular expression searched with re.IGNORECASE.
\* Of the metacharacters only "." (any character) is in the alphabet used.
StrContains(text, pat) ==
    /\ text # NullText
    /\ \E i \in 1..(Len(text) - Len(pat) + 1) :
          \A k \in 1..Len(pat) :
              \/ pat[k] = "."
              \/ Lower(pat[k]) = Lower(text[i + k - 1])

---------------------------------------------------------------------------
(* Frames: a GeoDataFrame is its rows in order, its CRS and, when the      *)
(* column has been added, the popup_content column.                        *)

WGS84 == "EPSG:4326"
UTM16 == "EPSG:32616"

Frame(rows, crs) ==
    [rows |-> rows, crs |-> crs, hasPopup |-> FALSE, popup_content |-> <<>>]

\* gpd.GeoDataFrame(): no rows, no columns, no CRS.
EmptyGeoDataFrame == Frame(<<>>, "none")

IsEmpty(f) == Len(f.rows) = 0

\* DataFrame.head(n)
HeadRows(rows, n) == SubSeq(rows, 1, Min2(n, Len(rows)))

---------------------------------------------------------------------------
(* Geometry.  A parcel geometry is an axis-aligned rectangle               *)
(* [minx, miny, maxx, maxy] (x = longitude / easting, y = latitude /       *)
(* northing) in the units of the frame's CRS.                              *)

Rect(minx, miny, maxx, maxy) ==
    [minx |-> minx, miny |-> miny, maxx |-> maxx, maxy |-> maxy]

\* to_crs between EPSG:4326 and EPSG:32616.  pyproj's transverse Mercator is
\* replaced by a local affine map, exact on the micro-degree grid: KX mm of
\* easting per micro-degree of longitude from the zone's central meridian
\* (87 W, false easting 500 km), KY mm of northing per micro-degree of
\* latitude.  Northings are counted from 40 N to stay within TLC's integers.
\* KX is 67 (about 81 on the ground at 43 N) so that half a mile, 804670 mm,
\* is a whole number of grid steps.
KX == 67
KY == 111
CentralMeridian == -87000000
FalseEasting == 500000000
NorthingOrigin == 40000000

Easting(lon) == FalseEasting + (lon - CentralMeridian) * KX
Northing(lat) == (lat - NorthingOrigin) * KY
Longitude(x) == CentralMeridian + ((x - FalseEasting) \div KX)
Latitude(y) == NorthingOrigin + (y \div KY)

ProjectGeom(g, from, to) ==
    IF from = to THEN g
    ELSE IF to = UTM16
         THEN Rect(Easting(g.minx), Northing(g.miny), Easting(g.maxx), Northing(g.maxy))
         ELSE Rect(Longitude(g.minx), Latitude(g.miny), Longitude(g.maxx), Latitude(g.maxy))

\* GeoDataFrame.to_crs(crs): a new frame, every geometry reprojected.
ToCrs(f, crs) ==
    [f EXCEPT !.rows = [i \in 1..Len(f.rows) |->
                           [f.rows[i] EXCEPT !.geometry = ProjectGeom(@, f.crs, crs)]],
              !.crs = crs]

\* distance_meters = distance_miles * 1609.34, in mm per tenth of a mile.
MmPerTenthMile == 160934

\* A mutation: the radius taken as kilometres.
DistanceKm(distance_miles) == distance_miles * 100000

DistanceMm(distance_miles) == distance_miles * MmPerTenthMile

\* Point(lon, lat) reprojected to UTM and buffered: the disk of centre
\* (cx, cy) and radius r.  (shapely approximates the circle by a polygon
\* whose vertices lie on it; the model keeps the circle.)
Buffer(lon, lat, distance_miles) ==
    [cx |-> Easting(lon), cy |-> Northing(lat), r |-> DistanceMm(distance_miles)]

\* geometry.intersects(buffered_point): the rectangle's nearest point to the
\* centre is within r of it (boundary included).  A buffer of radius <= 0 is
\* the empty polygon and intersects nothing.
Intersects(g, disk) ==
    LET dx == Max2(Max2(g.minx - disk.cx, disk.cx - g.maxx), 0)
        dy == Max2(Max2(g.miny - disk.cy, disk.cy - g.maxy), 0)
    IN  /\ disk.r > 0
        /\ WideLeq(WideAdd(WideSq(dx), WideSq(dy)), WideSq(disk.r))

---------------------------------------------------------------------------
(* filter_parcels *)

\* Series.between(left, right, inclusive='both')
Between(x, left, right) == left <= x /\ x <= right

\* A mutation: the place-name clause is OR-ed into the mask (`|=` for `&=`).
RowMaskOrPlace(row, acres_min, acres_max, owner_name, placenames, zipcodes, schooldists, estfmkvalu_min, estfmkvalu_max) ==
    \/ /\ Between(row.GISACRES, acres_min, acres_max)
       /\ (owner_name # <<>>) => StrContains(row.OWNERNME1, owner_name)
       /\ (zipcodes # {}) => row.ZIPCODE \in zipcodes
       /\ (schooldists # {}) => row.SCHOOLDIST \in schooldists
       /\ (estfmkvalu_min # None /\ estfmkvalu_max # None)
             => Between(row.ESTFMKVALU, Get(estfmkvalu_min), Get(estfmkvalu_max))
    \/ (placenames # {} /\ row.PLACENAME \in placenames)

\* The boolean mask of one row.  owner_name is text ("" is falsy); the three
\* lists are sets (empty is falsy); the value bounds are optional numbers.
RowMask(row, acres_min, acres_max, owner_name, placenames, zipcodes, schooldists, estfmkvalu_min, estfmkvalu_max) ==
    /\ Between(row.GISACRES, acres_min, acres_max)
    /\ (owner_name # <<>>) => StrContains(row.OWNERNME1, owner_name)
    /\ (placenames # {}) => row.PLACENAME \in placenames
    /\ (zipcodes # {}) => row.ZIPCODE \in zipcodes
    /\ (schooldists # {}) => row.SCHOOLDIST \in schooldists
    /\ (estfmkvalu_min # None /\ estfmkvalu_max # None)
          => Between(row.ESTFMKVALU, Get(estfmkvalu_min), Get(estfmkvalu_max))

\* The guard of the proximity branch: `if lat and lon and distance_miles`.
ProximityRequested(lat, lon, distance_miles) ==
    Truthy(lat) /\ Truthy(lon) /\ Truthy(distance_miles)

LatMin == 42000000
LatMax == 44000000
LonMin == -89000000
LonMax == -87000000

\* 42.0 <= lat <= 44.0 and -89.0 <= lon <= -87.0
InRegion(lat, lon) ==
    LatMin <= lat /\ lat <= LatMax /\ LonMin <= lon /\ lon <= LonMax

\* The popup_content cell of one row: owner, acres, market value and either
\* the link to the row's URL or the "No URL available" text.
PopupContent(row) ==
    [owner |-> row.OWNERNME1, acres |-> row.GISACRES, value |-> row.ESTFMKVALU,
     taxSite |-> IF row.URL # NullText THEN <<"Link to Tax Site", row.URL>>
                 ELSE <<"No URL available">>]

WithPopup(f) ==
    [f EXCEPT !.hasPopup = TRUE,
              !.popup_content = [i \in 1..Len(f.rows) |-> PopupContent(f.rows[i])]]

\* The two frames a call works with: `input` is the object the caller passed
\* (gdf), `cur` the object the local name `filtered` is bound to, `shared`
\* whether they are one object.

\* filtered = gdf.copy()
CopyFrame(g) == [input |-> g, cur |-> g, shared |-> FALSE]

\* filtered = filtered[mask]: boolean indexing builds a new frame.
TakeRows(h, rows) ==
    [h EXCEPT !.cur = [@ EXCEPT !.rows = rows], !.shared = FALSE]

\* filtered = filtered.to_crs(crs): to_crs returns a new frame.
Reproject(h, crs) ==
    [h EXCEPT !.cur = ToCrs(@, crs), !.shared = FALSE]

\* A mutation: the popup column is (also) written to the caller's frame.
AssignPopupOnInput(h) ==
    [h EXCEPT !.cur = WithPopup(@), !.input = WithPopup(@)]

\* filtered['popup_content'] = ...: writes the column into the object that
\* `filtered` is bound to.
AssignPopup(h) ==
    [h EXCEPT !.cur = WithPopup(@),
              !.input = IF h.shared THEN WithPopup(h.cur) ELSE @]

\* Lines 61-69: buffer the projected point, keep the rows whose projected
\* geometry intersects it, project back.
ProximityFilter(h, lat, lon, distance_miles) ==
    LET buffered_point == Buffer(lon, lat, distance_miles)
        projected == Reproject(h, UTM16)
        kept == TakeRows(projected,
                    SelectSeq(projected.cur.rows,
                              LAMBDA row : Intersects(row.geometry, buffered_point)))
    IN  Reproject(kept, WGS84)

\* filter_parcels(gdf, ...): the frame returned, whether st.error was shown,
\* and the caller's frame as the call leaves it.
FilterParcels(g, acres_min, acres_max, owner_name, placenames, zipcodes, schooldists, estfmkvalu_min, estfmkvalu_max, lat, lon, distance_miles) ==
    LET copied == CopyFrame(g)
        masked == TakeRows(copied,
                      SelectSeq(copied.cur.rows,
                                LAMBDA row : RowMask(row, acres_min, acres_max, owner_name,
                                                     placenames, zipcodes, schooldists,
                                                     estfmkvalu_min, estfmkvalu_max)))
    IN  IF ProximityRequested(lat, lon, distance_miles)
        THEN IF ~InRegion(Get(lat), Get(lon))
             THEN [ret |-> EmptyGeoDataFrame, error |-> TRUE, input |-> masked.input]
             ELSE LET done == AssignPopup(
                                  ProximityFilter(masked, Get(lat), Get(lon),
                                                  Get(distance_miles)))
                  IN  [ret |-> done.cur, error |-> FALSE, input |-> done.input]
        ELSE LET done == AssignPopup(masked)
             IN  [ret |-> done.cur, error |-> FALSE, input |-> done.input]

---------------------------------------------------------------------------
(* The parcels the datasets are drawn from.  Q is the query point used by   *)
(* the proximity inputs; 60050 micro-degrees of longitude are exactly 2.5   *)
(* miles (4023350 mm) of easting and 72060 exactly 3 miles.                 *)

QLat == 43011112
QLon == -88227508

Parcel(owner, place, zip, school, value, acres, url, geometry) ==
    [idx |-> 0, OWNERNME1 |-> owner, PLACENAME |-> place, ZIPCODE |-> zip,
     SCHOOLDIST |-> school, ESTFMKVALU |-> value, PSTLADRESS |-> "PO BOX",
     SITEADRESS |-> "MAIN ST", GISACRES |-> acres, URL |-> url,
     geometry |-> geometry]

\* a small lot whose centroid is exactly 2.5 miles east of Q
SmallLot ==
    Parcel(<<"A", "b">>, "WAUKESHA", "53186", "WAUKESHA SD", 100000, 100,
           <<"http://tax/1">>,
           Rect(QLon + 60000, QLat - 50, QLon + 60100, QLat + 50))

\* a large tract with the same centroid, reaching to within 1.25 miles of Q
LargeTract ==
    Parcel(<<"a", ".">>, "BROOKFIELD", "53005", "ELMBROOK SD", 800000, 4000,
           NullText,
           Rect(QLon + 30050, QLat - 30000, QLon + 90050, QLat + 30000))

\* a lot around Q, with no owner on record
NearLot ==
    Parcel(NullText, "WAUKESHA", "53186", "WAUKESHA SD", 0, 50,
           <<"http://tax/3">>,
           Rect(QLon - 100, QLat - 100, QLon + 100, QLat + 100))

\* a lot whose western edge is exactly 3 miles east of Q
EdgeLot ==
    Parcel(<<"C">>, "BROOKFIELD", "53186", "ELMBROOK SD", 1000000000, 100000,
           <<"http://tax/4">>,
           Rect(QLon + 72060, QLat - 10, QLon + 72160, QLat + 10))

\* a lot whose western edge is one grid step beyond 3 miles
FarLot ==
    Parcel(<<"A", "b">>, "WAUKESHA", "53005", "ELMBROOK SD", 50000, 50,
           NullText,
           Rect(QLon + 72061, QLat - 10, QLon + 72161, QLat + 10))

ParcelPool == {SmallLot, LargeTract, NearLot, EdgeLot, FarLot}

MaxRows == 2

\* A frame in WGS84 over a sequence of parcels; idx is the row's index label.
DatasetOf(parcels) ==
    Frame([i \in 1..Len(parcels) |-> [parcels[i] EXCEPT !.idx = i]], WGS84)

SmallDatasets ==
    {DatasetOf(ps) : ps \in UNION {[1..n -> ParcelPool] : n \in 0..MaxRows}}

---------------------------------------------------------------------------
(* Direct calls of filter_parcels *)

Args(acres, owner_name, sets, value, prox) ==
    [acres_min |-> acres[1], acres_max |-> acres[2], owner_name |-> owner_name,
     placenames |-> sets[1], zipcodes |-> sets[2], schooldists |-> sets[3],
     estfmkvalu_min |-> value[1], estfmkvalu_max |-> value[2],
     lat |-> prox[1], lon |-> prox[2], distance_miles |-> prox[3]]

NoProximity == <<None, None, None>>

CallAcres == {<<0, 100000>>, <<50, 100>>, <<100, 50>>}
CallOwners == {<<>>, <<"B">>, <<"a", ".">>}
CallSets == {<<{}, {}, {}>>, <<{"WAUKESHA"}, {}, {}>>, <<{}, {"53186"}, {}>>,
             <<{}, {}, {"ELMBROOK SD"}>>,
             <<{"WAUKESHA", "BROOKFIELD"}, {"53186"}, {"WAUKESHA SD"}>>}
CallValues == {<<None, None>>, <<{0}, {1000000000}>>, <<{100000}, {800000}>>}
CallProximity ==
    {NoProximity,
     <<{QLat}, {QLon}, {30}>>,          \* 3.0 miles around Q
     <<{QLat}, {QLon}, {20}>>,          \* 2.0 miles around Q
     <<{45000000}, {QLon}, {10}>>,      \* latitude 45.0
     <<{QLat}, {-90000000}, {10}>>,     \* longitude -90.0
     <<{0}, {QLon}, {10}>>,             \* latitude 0.0
     <<{QLat}, {QLon}, {0}>>}           \* radius 0.0

CallArgs ==
    {Args(a, o, s, v, p) : a \in CallAcres, o \in CallOwners, s \in CallSets,
                           v \in CallValues, p \in CallProximity}

Invoke(g, a) ==
    FilterParcels(g, a.acres_min, a.acres_max, a.owner_name, a.placenames, a.zipcodes,
                  a.schooldists, a.estfmkvalu_min, a.estfmkvalu_max,
                  a.lat, a.lon, a.distance_miles)

\* Nothing rendered below the title.
NoScreen == [map |-> None, table |-> None, count |-> None, warnings |-> {}]

SessionUnchanged ==
    UNCHANGED <<loadError, source, filter_options, filtered_gdf, map_bounds, map_file,
                map_truncated, temp_map, screen, event>>

\* The datasets filter_parcels is called on (an empty one has nothing to
\* filter).
CallDatasets == {d \in SmallDatasets : ~IsEmpty(d)}

InitCall ==
    /\ gdf \in {Some(d) : d \in CallDatasets}
    /\ loaded = gdf
    /\ source = [kind |-> "ok", frame |-> Get(gdf)]
    /\ loadError = "none"
    /\ pc = "ready"
    /\ filter_options = None
    /\ filtered_gdf = None
    /\ map_bounds = None
    /\ map_file = None
    /\ map_truncated = FALSE
    /\ temp_map = None
    /\ screen = NoScreen
    /\ event = "none"
    /\ call = None
    /\ filterInvoked = FALSE

\* A caller invokes filter_parcels on the dataset.
Call ==
    /\ pc = "ready"
    /\ \E a \in CallArgs :
          LET r == Invoke(Get(gdf), a)
          IN  /\ call' = Some([args |-> a, ret |-> r.ret, error |-> r.error])
              /\ gdf' = Some(r.input)
    /\ filterInvoked' = TRUE
    /\ pc' = "returned"
    /\ UNCHANGED loaded
    /\ SessionUnchanged

\* The caller is done with the result and may call again.
Return ==
    /\ pc = "returned"
    /\ pc' = "ready"
    /\ call' = None
    /\ UNCHANGED <<loaded, gdf, filterInvoked>>
    /\ SessionUnchanged

NextCall == Call \/ Return

SpecCall == InitCall /\ [][NextCall]_vars

---------------------------------------------------------------------------
(* Properties of direct calls (SpecCall) *)

RowSet(f) == {f.rows[i] : i \in 1..Len(f.rows)}

TheCall == Get(call)
Returned == pc = "returned" /\ call # None

AllSupplied(a) == a.lat # None /\ a.lon # None /\ a.distance_miles # None

\* C2: every call with latitude, longitude and radius all supplied and the
\* point outside [42, 44] x [-89, -87] signals the out-of-region error and
\* returns an empty result.
C2_OutOfRegionRejected ==
    Returned =>
        LET a == TheCall.args
        IN  (AllSupplied(a) /\ ~InRegion(Get(a.lat), Get(a.lon)))
                => (TheCall.error /\ IsEmpty(TheCall.ret))

\* The criteria that are `a` plus one more active restriction.
Narrower(r, lo, hi) == r[1] >= lo /\ r[2] <= hi /\ r # <<lo, hi>>

ValueActive(a) == a.estfmkvalu_min # None /\ a.estfmkvalu_max # None

OneMoreRestriction(a) ==
    {[a EXCEPT !.acres_min = r[1], !.acres_max = r[2]] :
        r \in {q \in CallAcres : Narrower(q, a.acres_min, a.acres_max)}}
    \cup {[a EXCEPT !.owner_name = o] :
        o \in {q \in CallOwners : a.owner_name = <<>> /\ q # <<>>}}
    \cup {[a EXCEPT !.placenames = s[1]] :
        s \in {q \in CallSets : a.placenames = {} /\ q[1] # {}}}
    \cup {[a EXCEPT !.zipcodes = s[2]] :
        s \in {q \in CallSets : a.zipcodes = {} /\ q[2] # {}}}
    \cup {[a EXCEPT !.schooldists = s[3]] :
        s \in {q \in CallSets : a.schooldists = {} /\ q[3] # {}}}
    \cup {[a EXCEPT !.estfmkvalu_min = v[1], !.estfmkvalu_max = v[2]] :
        v \in {q \in CallValues :
                  /\ q[1] # None /\ q[2] # None
                  /\ ValueActive(a) =>
                        Narrower(<<Get(q[1]), Get(q[2])>>,
                                 Get(a.estfmkvalu_min), Get(a.estfmkvalu_max))}}
    \cup {[a EXCEPT !.lat = p[1], !.lon = p[2], !.distance_miles = p[3]] :
        p \in {q \in CallProximity :
                  <<a.lat, a.lon, a.distance_miles>> = NoProximity /\ q # NoProximity}}

\* C3: subset monotonicity: with one more active restriction added to the
\* criteria of a call, every record returned is a record the call returned.
C3_SubsetMonotone ==
    Returned =>
        \A a2 \in OneMoreRestriction(TheCall.args) :
            RowSet(Invoke(Get(loaded), a2).ret) \subseteq RowSet(TheCall.ret)

\* a call with a restriction left to add, whose result the restriction cuts
C3_Witness ==
    /\ Returned
    /\ \E a2 \in OneMoreRestriction(TheCall.args) :
          /\ RowSet(Invoke(Get(loaded), a2).ret) # RowSet(TheCall.ret)
          /\ RowSet(Invoke(Get(loaded), a2).ret) # {}

\* Case-insensitive containment of `pat` as a literal substring of `text`.
HasSubstring(text, pat) ==
    /\ text # NullText
    /\ \E i \in 1..(Len(text) - Len(pat) + 1) :
          \A k \in 1..Len(pat) : Lower(pat[k]) = Lower(text[i + k - 1])

Satisfies(row, a) ==
    /\ a.acres_min <= row.GISACRES /\ row.GISACRES <= a.acres_max
    /\ (a.owner_name # <<>>) => HasSubstring(row.OWNERNME1, a.owner_name)
    /\ (a.placenames # {}) => row.PLACENAME \in a.placenames
    /\ (a.zipcodes # {}) => row.ZIPCODE \in a.zipcodes
    /\ (a.schooldists # {}) => row.SCHOOLDIST \in a.schooldists
    /\ Get(a.estfmkvalu_min) <= row.ESTFMKVALU
    /\ row.ESTFMKVALU <= Get(a.estfmkvalu_max)

\* C4: with no proximity query the call returns exactly the records of the
\* dataset, in dataset order, whose acreage and market value are within the
\* inclusive ranges, whose owner contains the substring (case-insensitively)
\* when one is given, and that are members of each non-empty set.
C4_ExactConjunction ==
    (Returned /\ <<TheCall.args.lat, TheCall.args.lon, TheCall.args.distance_miles>>
                    = NoProximity
              /\ ValueActive(TheCall.args))
        => TheCall.ret.rows
             = SelectSeq(Get(loaded).rows, LAMBDA row : Satisfies(row, TheCall.args))

\* Planar position of a WGS84 geometry and of the query point of a call.
Planar(g) == Rect(Easting(g.minx), Northing(g.miny), Easting(g.maxx), Northing(g.maxy))

\* Twice the planar offset from the point (lon, lat) to the centroid of g.
CentroidOffset2(g, lon, lat) ==
    <<Abs(Planar(g).minx + Planar(g).maxx - 2 * Easting(lon)),
      Abs(Planar(g).miny + Planar(g).maxy - 2 * Northing(lat))>>

\* The centroid of g is exactly `tenths` tenths of a mile from (lon, lat).
CentroidAt(g, lon, lat, tenths) ==
    LET o == CentroidOffset2(g, lon, lat)
    IN  WideAdd(WideSq(o[1]), WideSq(o[2])) = WideSq(2 * tenths * 160934)

\* Some point of g is within `tenths` tenths of a mile of (lon, lat): by
\* cases on where the point lies relative to the rectangle.
Reaches(g, lon, lat, tenths) ==
    LET p == Planar(g)
        x == Easting(lon)
        y == Northing(lat)
        r == tenths * 160934
        inX == p.minx <= x /\ x <= p.maxx
        inY == p.miny <= y /\ y <= p.maxy
        ex == Min2(Abs(p.minx - x), Abs(p.maxx - x))
        ey == Min2(Abs(p.miny - y), Abs(p.maxy - y))
    IN  CASE inX /\ inY -> TRUE
          [] inX /\ ~inY -> ey <= r
          [] ~inX /\ inY -> ex <= r
          [] OTHER -> WideLeq(WideAdd(WideSq(ex), WideSq(ey)), WideSq(r))

\* The rows of the dataset that pass the attribute mask of a call.
Candidates(a) ==
    {row \in RowSet(Get(loaded)) :
        RowMask(row, a.acres_min, a.acres_max, a.owner_name, a.placenames, a.zipcodes,
                a.schooldists, a.estfmkvalu_min, a.estfmkvalu_max)}

ProximityCall ==
    /\ Returned
    /\ AllSupplied(TheCall.args)
    /\ InRegion(Get(TheCall.args.lat), Get(TheCall.args.lon))
    /\ Get(TheCall.args.distance_miles) > 0

C7_DatasetUntouched ==
    /\ gdf = loaded
    /\ Get(gdf).crs = WGS84
    /\ ~Get(gdf).hasPopup

\* a proximity call that returned reprojected rows with their popup column
C7_Witness ==
    /\ ProximityCall
    /\ ~IsEmpty(TheCall.ret)
    /\ TheCall.ret.hasPopup
    /\ Len(TheCall.ret.popup_content) = Len(TheCall.ret.rows)
    /\ filterInvoked

---------------------------------------------------------------------------
(* load_parcels and get_filter_options *)

\* A mutation: a failed read hands back what was read so far.
LoadParcelsPartial(src) ==
    IF src.kind = "missing" THEN [gdf |-> None, error |-> "missing"]
    ELSE IF src.kind = "corrupt" \/ src.frame.crs = "none"
         THEN [gdf |-> Some(src.frame), error |-> "corrupt"]
         ELSE [gdf |-> Some(ToCrs(src.frame, WGS84)), error |-> "none"]

\* load_parcels(): None and an st.error when the file is missing
\* (FileNotFoundError) or when reading or reprojecting raises (a corrupt file;
\* a frame without CRS, which to_crs refuses); otherwise the frame in WGS84.
LoadParcels(src) ==
    IF src.kind = "missing" THEN [gdf |-> None, error |-> "missing"]
    ELSE IF src.kind = "corrupt" \/ src.frame.crs = "none"
         THEN [gdf |-> None, error |-> "corrupt"]
         ELSE [gdf |-> Some(IF src.frame.crs # WGS84 THEN ToCrs(src.frame, WGS84)
                            ELSE src.frame),
               error |-> "none"]

\* get_filter_options(...): the distinct values of the three columns (their
\* sorted order is not modelled) and the fixed market-value range.
GetFilterOptions(g) ==
    [zipcodes |-> {g.rows[i].ZIPCODE : i \in 1..Len(g.rows)},
     placenames |-> {g.rows[i].PLACENAME : i \in 1..Len(g.rows)},
     schooldists |-> {g.rows[i].SCHOOLDIST : i \in 1..Len(g.rows)},
     estfmkvalu_min |-> 0, estfmkvalu_max |-> 1000000000]

---------------------------------------------------------------------------
(* generate_map_html and the body of main() *)

MapCap == 1000          \* len(filtered_gdf) > 1000 / head(1000) in generate_map_html
TableCap == 1000        \* the same cap of the table in main()
MarkerLimit == 200      \* markers are drawn for fewer than 200 parcels

\* folium.Map(location=[43.0111125, -88.2275077], zoom_start=10), in 1e-7 deg
DefaultLat == 430111125
DefaultLon == -882275077
DefaultZoom == 10

BlankMap == [location |-> <<DefaultLat, DefaultLon>>, zoom_start |-> DefaultZoom,
             fit |-> None, features |-> <<>>, popups |-> <<>>, markers |-> <<>>]

\* GeoDataFrame.total_bounds
TotalBounds(f) ==
    LET G == {f.rows[i].geometry : i \in 1..Len(f.rows)}
    IN  Rect(SetMin({g.minx : g \in G}), SetMin({g.miny : g \in G}),
             SetMax({g.maxx : g \in G}), SetMax({g.maxy : g \in G}))

\* A mutation: the latitude sides padded by the width, the longitude sides by
\* the height.
MapBoundsSwapped(f) ==
    LET bounds == TotalBounds(f)
        width == bounds.maxx - bounds.minx
        height == bounds.maxy - bounds.miny
    IN  <<<<10 * bounds.miny - width, 10 * bounds.minx - height>>,
          <<10 * bounds.maxy + width, 10 * bounds.maxx + height>>>>

\* Lines 230-237: [[miny - height*0.1, minx - width*0.1],
\*                 [maxy + height*0.1, maxx + width*0.1]], in 1e-7 deg.
MapBounds(f) ==
    LET bounds == TotalBounds(f)
        width == bounds.maxx - bounds.minx
        height == bounds.maxy - bounds.miny
    IN  <<<<10 * bounds.miny - height, 10 * bounds.minx - width>>,
          <<10 * bounds.maxy + height, 10 * bounds.maxx + width>>>>

\* A marker: twice the centroid (lat, lon) of the row and its popup.
Marker(f, i) ==
    [location2 |-> <<f.rows[i].geometry.miny + f.rows[i].geometry.maxy,
                     f.rows[i].geometry.minx + f.rows[i].geometry.maxx>>,
     popup |-> f.popup_content[i]]

\* A mutation: `>=` for `>` in the truncation test.
GenerateMapHtmlGe(fo, bo) ==
    LET f == Get(fo)
        drawn == fo # None /\ ~IsEmpty(f)
        cut == drawn /\ Len(f.rows) >= MapCap
    IN  [file |-> Some("temp_map.html"),
         truncated |-> cut,
         content |-> [BlankMap EXCEPT
            !.fit = IF bo # None THEN bo ELSE None,
            !.features = IF drawn THEN HeadRows(f.rows, MapCap) ELSE <<>>,
            !.popups = IF drawn THEN HeadRows(f.popup_content, MapCap) ELSE <<>>,
            !.markers = IF drawn /\ Len(f.rows) < MarkerLimit
                        THEN [i \in 1..Len(f.rows) |-> Marker(f, i)] ELSE <<>>]]

\* generate_map_html(filtered_gdf, map_bounds): the file name, the
\* truncation flag and the map written to temp_map.html.
GenerateMapHtml(fo, bo) ==
    LET f == Get(fo)
        drawn == fo # None /\ ~IsEmpty(f)
        cut == drawn /\ Len(f.rows) > MapCap
    IN  [file |-> Some("temp_map.html"),
         truncated |-> cut,
         content |-> [BlankMap EXCEPT
            !.fit = IF bo # None THEN bo ELSE None,
            !.features = IF ~drawn THEN <<>>
                         ELSE IF cut THEN HeadRows(f.rows, MapCap) ELSE f.rows,
            !.popups = IF ~drawn THEN <<>>
                       ELSE IF cut THEN HeadRows(f.popup_content, MapCap)
                       ELSE f.popup_content,
            !.markers = IF drawn /\ Len(f.rows) < MarkerLimit
                        THEN [i \in 1..Len(f.rows) |-> Marker(f, i)] ELSE <<>>]]

\* The session state main() works on, with the file temp_map.html.
Session == [filtered_gdf |-> filtered_gdf, map_bounds |-> map_bounds,
            map_file |-> map_file, map_truncated |-> map_truncated,
            temp_map |-> temp_map]

\* A mutation: Reset forgets the result but not its bounds and flag.
ResetSessionResultOnly(s) ==
    [s EXCEPT !.filtered_gdf = None, !.map_file = None]

\* The reset branch of apply_filters_from_form (lines 186-189).
ResetSession(s) ==
    [s EXCEPT !.filtered_gdf = None, !.map_bounds = None, !.map_file = None,
              !.map_truncated = FALSE]

\* A mutation: the empty branch leaves bounds, file and flag as they were.
StoreResultKeep(s, r) ==
    IF ~IsEmpty(r)
    THEN LET b == Some(MapBounds(r))
             m == GenerateMapHtml(Some(r), b)
         IN  [s EXCEPT !.filtered_gdf = Some(r), !.map_bounds = b, !.map_file = m.file,
                       !.map_truncated = m.truncated, !.temp_map = Some(m.content)]
    ELSE [s EXCEPT !.filtered_gdf = Some(r)]

\* Lines 226-243: keep the new result; bounds and map for a non-empty one,
\* no bounds, no file and no truncation for an empty one.
StoreResult(s, r) ==
    IF ~IsEmpty(r)
    THEN LET b == Some(MapBounds(r))
             m == GenerateMapHtml(Some(r), b)
         IN  [s EXCEPT !.filtered_gdf = Some(r), !.map_bounds = b, !.map_file = m.file,
                       !.map_truncated = m.truncated, !.temp_map = Some(m.content)]
    ELSE [s EXCEPT !.filtered_gdf = Some(r), !.map_bounds = None, !.map_file = None,
                   !.map_truncated = FALSE]

\* Lines 246-248: the map of the retained result is generated again.
RefreshMap(s) ==
    IF s.filtered_gdf # None /\ ~IsEmpty(Get(s.filtered_gdf))
    THEN LET m == GenerateMapHtml(s.filtered_gdf, s.map_bounds)
         IN  [s EXCEPT !.map_file = m.file, !.map_truncated = m.truncated,
                       !.temp_map = Some(m.content)]
    ELSE s

\* The columns of the table: a row without its geometry.
TableRow(row) ==
    [idx |-> row.idx, OWNERNME1 |-> row.OWNERNME1, PLACENAME |-> row.PLACENAME,
     ZIPCODE |-> row.ZIPCODE, SCHOOLDIST |-> row.SCHOOLDIST,
     ESTFMKVALU |-> row.ESTFMKVALU, PSTLADRESS |-> row.PSTLADRESS,
     SITEADRESS |-> row.SITEADRESS, GISACRES |-> row.GISACRES, URL |-> row.URL]

TableOf(rows) == [i \in 1..Len(rows) |-> TableRow(rows[i])]

\* Lines 251-273: the map (the file when the session names one that exists,
\* the default map otherwise), the parcel count, the table and the warnings.
Display(s) ==
    LET fileShown == s.map_file # None /\ s.temp_map # None
        some == s.filtered_gdf # None
        f == Get(s.filtered_gdf)
        rows == some /\ ~IsEmpty(f)
        long == rows /\ Len(f.rows) > TableCap
    IN  [map |-> IF fileShown THEN s.temp_map ELSE Some(BlankMap),
         count |-> IF some THEN Some(Len(f.rows)) ELSE None,
         table |-> IF ~rows THEN None
                   ELSE IF long THEN Some(TableOf(HeadRows(f.rows, TableCap)))
                   ELSE Some(TableOf(f.rows)),
         warnings |->
            (IF fileShown /\ s.map_truncated THEN {"Map truncated"} ELSE {})
            \cup (IF long THEN {"Table truncated"} ELSE {})]

---------------------------------------------------------------------------
(* The form of apply_filters_from_form and one run of main() *)

AcresOptions == <<0, 50, 100, 200, 300, 500, 1000, 1500, 2000, 4000, 100000>>
ValueOptions == <<0, 50000, 100000, 200000, 300000, 400000, 500000, 600000, 800000,
                  900000, 1000000, 1500000, 2000000, 1000000000>>

\* select_slider with a pair as value: a range lo <= hi over the options
OrderedRanges(options) ==
    {<<options[i], options[j]>> :
        i \in 1..Len(options), j \in 1..Len(options)} \cap
    {r \in Int \X Int : r[1] <= r[2]}

\* The values tried in the form, each within what its widget allows.
FormAcres == OrderedRanges(AcresOptions) \cap
             {<<0, 100000>>, <<0, 100>>, <<0, 200>>, <<500, 1000>>}
FormOwners == {<<>>, <<"B">>}
FormSets(options) ==
    {c \in {<<{}, {}, {}>>, <<{"WAUKESHA"}, {"53186"}, {}>>} :
        /\ c[1] \subseteq options.placenames
        /\ c[2] \subseteq options.zipcodes
        /\ c[3] \subseteq options.schooldists}
FormValues ==
    {<<Some(r[1]), Some(r[2])>> :
        r \in OrderedRanges(ValueOptions) \cap {<<0, 1000000000>>, <<100000, 800000>>}}
\* the checkbox unticked, or number_input within [42, 44] and [-89, -87] and
\* the slider within 0.1 .. 20.0 miles
FormProximity ==
    {NoProximity} \cup
    {p \in {<<{QLat}, {QLon}, {20}>>} :
        InRegion(Get(p[1]), Get(p[2])) /\ 1 <= Get(p[3]) /\ Get(p[3]) <= 200}

\* The form as it is first drawn.
FormDefaults ==
    Args(<<0, 100000>>, <<>>, <<{}, {}, {}>>, <<{0}, {1000000000}>>, NoProximity)

FormArgs(options) ==
    {Args(a, o, c, v, p) : a \in FormAcres, o \in FormOwners, c \in FormSets(options),
                           v \in FormValues, p \in FormProximity}

\* apply_filters_from_form: the frame returned (None unless Apply was
\* pressed), the session (cleared by Reset), the error shown and the dataset
\* as the call leaves it.
ApplyFiltersFromForm(s, g, button, a) ==
    IF button = "apply"
    THEN LET r == Invoke(g, a)
         IN  [ret |-> Some(r.ret), s |-> s, error |-> r.error, input |-> r.input]
    ELSE IF button = "reset"
         THEN [ret |-> None, s |-> ResetSession(s), error |-> FALSE, input |-> g]
         ELSE [ret |-> None, s |-> s, error |-> FALSE, input |-> g]

\* main() from line 215 on, for a loaded dataset g.
RunMain(s, g, button, a) ==
    LET form == ApplyFiltersFromForm(s, g, button, a)
        stored == IF form.ret # None THEN StoreResult(form.s, Get(form.ret)) ELSE form.s
        final == RefreshMap(stored)
        shown == Display(final)
    IN  [s |-> final,
         input |-> form.input,
         screen |-> [shown EXCEPT !.warnings =
                        @ \cup (IF form.error THEN {"Coordinates out of valid range"} ELSE {})
                          \cup (IF form.ret # None /\ IsEmpty(Get(form.ret))
                                THEN {"No parcels match your filters."} ELSE {})]]

\* The rows of the large dataset: MapCap lots of one acre, one lot of two
\* acres, and tracts of forty acres after them.
BigExtra == 2

BigDataset ==
    DatasetOf([i \in 1..(MapCap + BigExtra) |->
                 IF i <= MapCap THEN SmallLot
                 ELSE IF i = MapCap + 1 THEN [SmallLot EXCEPT !.GISACRES = 200]
                 ELSE LargeTract])

Sources ==
    {[kind |-> "ok", frame |-> d] : d \in SmallDatasets \cup {BigDataset}}
    \cup {[kind |-> "ok", frame |-> ToCrs(DatasetOf(<<SmallLot, LargeTract>>), UTM16)],
          [kind |-> "ok", frame |-> Frame(<<>>, "none")],
          [kind |-> "missing", frame |-> EmptyGeoDataFrame],
          [kind |-> "corrupt", frame |-> DatasetOf(<<NearLot>>)]}

Init ==
    /\ source \in Sources
    /\ loaded = None
    /\ gdf = None
    /\ loadError = "none"
    /\ pc = "start"
    /\ filter_options = None
    /\ filtered_gdf = None
    /\ map_bounds = None
    /\ map_file = None
    /\ map_truncated = FALSE
    /\ temp_map = None
    /\ screen = NoScreen
    /\ event = "none"
    /\ call = None
    /\ filterInvoked = FALSE

\* The session variables take the values a run of main() leaves.
Ran(run) ==
    /\ filtered_gdf' = run.s.filtered_gdf
    /\ map_bounds' = run.s.map_bounds
    /\ map_file' = run.s.map_file
    /\ map_truncated' = run.s.map_truncated
    /\ temp_map' = run.s.temp_map
    /\ screen' = run.screen
    /\ gdf' = Some(run.input)

\* The page is opened: main() runs for the first time, load_parcels reads the
\* file.  A failed load stops the script at st.stop(); otherwise the options
\* are computed, the session state is created and the page is drawn with no
\* button pressed.
Open ==
    /\ pc = "start"
    /\ LET l == LoadParcels(source)
       IN  /\ loadError' = l.error
           /\ loaded' = l.gdf
           /\ IF l.gdf = None
              THEN /\ pc' = "stopped"
                   /\ gdf' = None
                   /\ UNCHANGED <<filter_options, filtered_gdf, map_bounds, map_file,
                                   map_truncated, temp_map, screen>>
              ELSE /\ pc' = "idle"
                   /\ filter_options' = Some(GetFilterOptions(Get(l.gdf)))
                   /\ Ran(RunMain(Session, Get(l.gdf), "none", FormDefaults))
    /\ event' = "open"
    /\ UNCHANGED <<source, call, filterInvoked>>

\* A rerun of a session whose load failed: the cached None stops it again.
RerunStopped ==
    /\ pc = "stopped"
    /\ event' = "rerun"
    /\ UNCHANGED <<loaded, gdf, loadError, source, pc, filter_options, filtered_gdf,
                    map_bounds, map_file, map_truncated, temp_map, screen, call,
                    filterInvoked>>

\* "Apply Filters" is pressed with the form holding the criteria a.
Apply ==
    /\ pc = "idle"
    /\ \E a \in FormArgs(Get(filter_options)) :
          Ran(RunMain(Session, Get(gdf), "apply", a))
    /\ event' = "apply"
    /\ filterInvoked' = TRUE
    /\ UNCHANGED <<loaded, loadError, source, pc, filter_options, call>>

\* "Reset Map" is pressed (the values in the form are not read).
Reset ==
    /\ pc = "idle"
    /\ Ran(RunMain(Session, Get(gdf), "reset", FormDefaults))
    /\ event' = "reset"
    /\ UNCHANGED <<loaded, loadError, source, pc, filter_options, call, filterInvoked>>

\* Any other interaction reruns the script with neither button pressed (the
\* values in the form are not read).
Rerun ==
    /\ pc = "idle"
    /\ Ran(RunMain(Session, Get(gdf), "none", FormDefaults))
    /\ event' = "rerun"
    /\ UNCHANGED <<loaded, loadError, source, pc, filter_options, call, filterInvoked>>

Next == Open \/ RerunStopped \/ Apply \/ Reset \/ Rerun

Spec == Init /\ [][Next]_vars

---------------------------------------------------------------------------
(* Properties of the session (Spec) *)

Retained == Get(filtered_gdf)
ShownMap == Get(screen.map)

\* C1: whenever the retained result has more than 1000 records the truncated
\* flag is true, the map and the table get exactly its first 1000 records in
\* order and the count shown is the full count; whenever it has at most 1000
\* the flag is false and all its records are rendered.
C1_TruncationInvariant ==
    (pc = "idle" /\ filtered_gdf # None) =>
        LET rows == Retained.rows
            n == Len(rows)
        IN  /\ screen.count = Some(n)
            /\ n > 1000 =>
                  /\ map_truncated
                  /\ ShownMap.features = SubSeq(rows, 1, 1000)
                  /\ ShownMap.popups = SubSeq(Retained.popup_content, 1, 1000)
                  /\ screen.table = Some(TableOf(SubSeq(rows, 1, 1000)))
            /\ n <= 1000 =>
                  /\ ~map_truncated
                  /\ ShownMap.features = rows
                  /\ n > 0 => screen.table = Some(TableOf(rows))

\* a plain rerun showing a result of more than 1000 records, its map cut to
\* the first 1000 and the full count reported
C1_Witness ==
    /\ pc = "idle"
    /\ event = "rerun"
    /\ filtered_gdf # None
    /\ Len(Retained.rows) > 1000
    /\ Len(ShownMap.features) = 1000
    /\ screen.count = Some(Len(Retained.rows))

\* C6: whenever the retained result of an applied filter is empty, the
\* retained bounds are none, the truncated flag is false and the map shown is
\* the default view (centre 43.0111125, -88.2275077, zoom 10, no fitted
\* bounds, no parcels).
C6_EmptyFallsBack ==
    (pc = "idle" /\ filtered_gdf # None /\ IsEmpty(Retained)) =>
        /\ map_bounds = None
        /\ ~map_truncated
        /\ screen.map = Some([location |-> <<430111125, -882275077>>, zoom_start |-> 10,
                              fit |-> None, features |-> <<>>, popups |-> <<>>,
                              markers |-> <<>>])

\* an Apply with no match, while the map of an earlier non-empty result is
\* still on disk
C6_Witness ==
    /\ pc = "idle"
    /\ event = "apply"
    /\ filtered_gdf # None
    /\ IsEmpty(Retained)
    /\ temp_map # None
    /\ Get(temp_map).fit # None

\* The minimal bounding box of the retained rows: below and left of every
\* geometry, above and right of it, and attained on each side.
IsMinimalBox(b, rows) ==
    /\ \A i \in 1..Len(rows) :
          /\ b.minx <= rows[i].geometry.minx /\ b.miny <= rows[i].geometry.miny
          /\ b.maxx >= rows[i].geometry.maxx /\ b.maxy >= rows[i].geometry.maxy
    /\ \E i \in 1..Len(rows) : b.minx = rows[i].geometry.minx
    /\ \E i \in 1..Len(rows) : b.miny = rows[i].geometry.miny
    /\ \E i \in 1..Len(rows) : b.maxx = rows[i].geometry.maxx
    /\ \E i \in 1..Len(rows) : b.maxy = rows[i].geometry.maxy

\* C8: for a non-empty retained result with minimal bounding box (minx, miny,
\* maxx, maxy) the display bounds are [[miny - 0.1*height, minx - 0.1*width],
\* [maxy + 0.1*height, maxx + 0.1*width]]; the display rectangle contains the
\* box.  (Display bounds are in tenths of the unit of the box, so 0.1*height
\* is height and miny is 10*miny.)
C8_PaddedBounds ==
    (pc = "idle" /\ filtered_gdf # None /\ ~IsEmpty(Retained)) =>
        /\ map_bounds # None
        /\ LET d == Get(map_bounds)
               xs == {Retained.rows[i].geometry.minx : i \in 1..Len(Retained.rows)}
                     \cup {Retained.rows[i].geometry.maxx : i \in 1..Len(Retained.rows)}
               ys == {Retained.rows[i].geometry.miny : i \in 1..Len(Retained.rows)}
                     \cup {Retained.rows[i].geometry.maxy : i \in 1..Len(Retained.rows)}
           IN  \E minx \in xs, maxx \in xs, miny \in ys, maxy \in ys :
                 /\ IsMinimalBox(Rect(minx, miny, maxx, maxy), Retained.rows)
                 /\ d[1][1] = 10 * miny - (maxy - miny)
                 /\ d[1][2] = 10 * minx - (maxx - minx)
                 /\ d[2][1] = 10 * maxy + (maxy - miny)
                 /\ d[2][2] = 10 * maxx + (maxx - minx)
                 /\ d[1][1] <= 10 * miny /\ d[1][2] <= 10 * minx
                 /\ d[2][1] >= 10 * maxy /\ d[2][2] >= 10 * maxx

\* a retained result of several parcels whose box is wider than it is high,
\* with the map fitted to the display bounds
C8_Witness ==
    /\ pc = "idle"
    /\ filtered_gdf # None
    /\ Len(Retained.rows) >= 2
    /\ map_bounds # None
    /\ ShownMap.fit = map_bounds
    /\ Get(map_bounds)[2][2] - Get(map_bounds)[1][2]
          > Get(map_bounds)[2][1] - Get(map_bounds)[1][1]
    /\ Get(map_bounds)[2][1] > Get(map_bounds)[1][1]

\* C9: a failed load is terminal: load_parcels signalled the error and
\* returned no dataset, the script stopped before the filter options, no
\* filter was ever invoked, no session state was created and nothing was drawn.
C9_LoadFailureTerminal ==
    /\ (pc # "start" /\ (source.kind # "ok" \/ source.frame.crs = "none"))
          => loadError # "none"
    /\ loadError # "none" =>
          /\ pc = "stopped"
          /\ loaded = None /\ gdf = None
          /\ filter_options = None
          /\ ~filterInvoked
          /\ filtered_gdf = None /\ map_bounds = None /\ map_file = None
          /\ screen = NoScreen
    /\ pc = "stopped" => loadError # "none"

\* a session whose file was corrupt (rows had been read), rerun after it
\* stopped
C9_Witness ==
    /\ pc = "stopped"
    /\ event = "rerun"
    /\ loadError = "corrupt"
    /\ source.kind = "corrupt"
    /\ ~IsEmpty(source.frame)

\* The retained state belongs to one result.
OneResult ==
    pc = "idle" =>
        /\ map_bounds # None <=> (filtered_gdf # None /\ ~IsEmpty(Retained))
        /\ map_bounds # None => map_bounds = Some(MapBounds(Retained))
        /\ map_truncated <=> (filtered_gdf # None /\ Len(Retained.rows) > 1000)

\* C10: at the end of every interaction (a) the retained bounds are non-none
\* exactly when the retained result is non-none and non-empty, and are the
\* bounds of that result; (b) the truncated flag is true exactly when that
\* result has more than 1000 records; (c) a rerun that is neither Apply nor
\* Reset leaves result, bounds and flag unchanged; (d) Reset sets result and
\* bounds to none and the flag to false.
C10_RerunKeeps ==
    (pc = "idle" /\ event' = "rerun")
        => UNCHANGED <<filtered_gdf, map_bounds, map_truncated>>

C10_ResetClears ==
    event' = "reset" => (filtered_gdf' = None /\ map_bounds' = None /\ ~map_truncated')

C10_SessionConsistent ==
    /\ []OneResult
    /\ [][C10_RerunKeeps /\ C10_ResetClears]_vars

\* a plain rerun of a session that retains a truncated result with its bounds
C10_Witness ==
    /\ pc = "idle"
    /\ event = "rerun"
    /\ filtered_gdf # None
    /\ map_truncated
    /\ map_bounds # None

====
